---- MODULE Spec2Model ----
(***************************************************************************)
(* The bounded-concurrency fetch helper of the talk: callWithRetry,        *)
(* getTodo and the worker-pool getTodos with an AbortController.           *)
(*                                                                         *)
(* JavaScript runs every callback to completion, so one action is one      *)
(* callback together with everything it calls synchronously: the call of   *)
(* getTodos (with the start-up loop), the settlement of one fetch attempt  *)
(* (with the catch block of callWithRetry or the then/catch callback of    *)
(* fetchRemaining behind it), the expiry of one backoff timer, and the     *)
(* caller aborting its signal (with the abort listener).                   *)
(***************************************************************************)
EXTENDS Integers, Sequences, FiniteSets, TLC

\* ---------------------------------------------------------------- bounds
MaxN == 2          \* longest list of identifiers handed to getTodos
MaxK == 2          \* largest explicit opt.limit handed to getTodos
MaxLimit == 3      \* largest opt.limit handed to callWithRetry on its own
MaxBase == 3       \* largest opt.base
MaxExp == 3        \* largest opt.exp
MaxCap == 30       \* largest opt.cap
MaxRange == 2      \* longest range handed to the range-based getTodos
MaxChunkN == 11    \* longest list of identifiers handed to the chunked getTodos
MaxAttemptMs == 7000  \* longest time one request or one decoding takes
MaxExpSteps == 20  \* recurrences after which 2^n is no longer computed
MaxEffN == 2       \* most ids handed to the Effect getTodos
MaxRecur == 2      \* most recurrences the schedule grants one getTodo there
MaxRetries == 3    \* largest n handed to withRetry on its own, next to 10
MaxFaults == 1     \* most failed attempts of one item on a run that succeeds

\* ------------------------------------------------------ program constants
DefaultLimit == 5
DefaultRetryLimit == 10
DefaultBase == 2
DefaultExp == 10
DefaultCap == 2000
RangeRetries == 10
ChunkSize == 5
ExpBaseMs == 10
ExpFactor == 2
SpacedMs == 1000
MaxElapsedMs == 30000

VARIABLES
  called,      \* getTodos has been called
  ids,         \* the ids argument
  opt,         \* the opt argument of getTodos: limit and signal are optional
  extAborted,  \* opt.signal.aborted (the caller's signal)
  controller,  \* controller.signal.aborted (the internal AbortController)
  remaining,   \* the reversed list of [id, index] pairs still to dispatch
  results,     \* the results array (a JS array: indices 0..length-1, holes)
  pending,     \* the pending counter
  promise,     \* the promise getTodos returns
  st,          \* per index: Queued, InFlight, Waiting, Succeeded, Failed
  depth,       \* per index: the depth argument of the running callWithRetry
               \* (0 once the call has returned or thrown)
  att,         \* per index: the current fetch: io, aborted, noio
  url,         \* per index: the id the dispatched getTodo fetches
  err,         \* per index: the error its getTodo promise rejected with
  sawExt,      \* per index: opt.signal.aborted when the current fetch began
  completed,   \* the indices whose fetch has succeeded, in completion order
  dispatched,  \* the [id, index] pairs popped from remaining, in pop order
  writes,      \* per index: how many times results[index] has been assigned
  abortSnap,   \* what the operation looked like when the caller aborted
  cwOpt,       \* callWithRetry called on its own: its opt argument
  cw,          \* ... and its run: state, depth, calls of fn, waits scheduled
  rg,          \* the range-based getTodos(from, to): its controller, the
               \* withRetry call of every id, the promise it returns
  wr,          \* withRetry called on its own, with or without a signal: the
               \* retries left, the calls of body, the signal, the outcome
  ch,          \* the chunked getTodos(ids): the loop index, the fetch of
               \* every id, the todos array, the promise it returns
  et,          \* the Effect getTodo(id): the stage of the pipeline, the clock,
               \* the state of the retry schedule, the runs made
  ea           \* the Effect getTodos(ids): the fiber of every id, the
               \* AbortController of its request, the exit of forEachPar

poolVars == <<called, ids, opt, extAborted, controller, remaining, results,
              pending, promise, st, depth, att, url, err, sawExt, completed,
              dispatched, writes, abortSnap>>

retryVars == <<cwOpt, cw>>

rangeVars == <<rg, wr>>

chunkVars == <<ch>>

effectVars == <<et, ea>>

vars == <<poolVars, retryVars, rangeVars, chunkVars, effectVars>>

\* ------------------------------------------------------------ JS helpers
\* opt?.f ?? d
Get(o, f, d) == IF f \in DOMAIN o THEN o[f] ELSE d

NoOpt == [f \in {} |-> 0]

\* Math.min
Min(a, b) == IF a < b THEN a ELSE b

\* a ** b on naturals
RECURSIVE Pow(_, _)
Pow(b, e) == IF e = 0 THEN 1 ELSE b * Pow(b, e - 1)

RECURSIVE Reverse(_)
Reverse(s) == IF s = <<>> THEN <<>> ELSE Append(Reverse(Tail(s)), Head(s))

\* ------------------------------------------------------------ callWithRetry
\* the test of the catch block: rethrow once depth exceeds the limit
\* (variants: giving up as soon as the limit is reached; never retrying)
GivesUpAtLimit(o, d) == d >= Get(o, "limit", DefaultRetryLimit)
GivesUpAtOnce(o, d) == TRUE
GivesUp(o, d) == d > Get(o, "limit", DefaultRetryLimit)

\* the argument of wait() in the catch block
\* (variants: the cap left out; the exponent taken one attempt ahead;
\* Math.max in place of Math.min; base * depth in place of base ** depth)
BackoffMsMax(o, d) ==
  LET x == Pow(Get(o, "base", DefaultBase), d) * Get(o, "exp", DefaultExp)
      c == Get(o, "cap", DefaultCap)
  IN IF x > c THEN x ELSE c
BackoffMsLinear(o, d) ==
  Min(Get(o, "base", DefaultBase) * d * Get(o, "exp", DefaultExp),
      Get(o, "cap", DefaultCap))
BackoffMsNoCap(o, d) == Pow(Get(o, "base", DefaultBase), d) * Get(o, "exp", DefaultExp)
BackoffMsNextDepth(o, d) ==
  Min(Pow(Get(o, "base", DefaultBase), d + 1) * Get(o, "exp", DefaultExp),
      Get(o, "cap", DefaultCap))
BackoffMs(o, d) ==
  Min(Pow(Get(o, "base", DefaultBase), d) * Get(o, "exp", DefaultExp),
      Get(o, "cap", DefaultCap))

\* the options getTodo hands to callWithRetry
GetTodoRetryOpt == [limit |-> 10, cap |-> 2000, base |-> 2, exp |-> 10]

\* ------------------------------------------------------------------ fetch
\* what the response of /todos/{id} decodes to
Todo(id) == <<"todo", id>>

Hole == <<"empty", 0>>

NoErr == [kind |-> "none", idx |-> -1, depth |-> -1]

\* fetch(url, {signal}) called: an already aborted signal rejects the call
\* with an AbortError before any request is made
\* (variant: fetch called without the signal)
FetchStartNoSignal(aborted) == "io"
FetchStart(aborted) == IF aborted THEN "noio" ELSE "io"

\* the signal aborts while the request (or the reading of its body) is under
\* way: the attempt is rejected with an AbortError (the abort steps of fetch
\* reject the call and error the body being read)
\* (variant: a request under way that ignores the abort)
FetchAbortIgnored(a) == a
FetchAbort(a) == IF a = "io" THEN "aborted" ELSE a

\* the errors an attempt can be rejected with: a network failure (TypeError)
\* or a body that does not decode (SyntaxError) while I/O runs, an AbortError
\* once the signal has aborted it
FailureKinds(a) == IF a = "io" THEN {"TypeError", "SyntaxError"} ELSE {"AbortError"}

\* ------------------------------------------------------------------ state
Items == 0 .. (Len(ids) - 1)

Heap ==
  [ext |-> extAborted, controller |-> controller, remaining |-> remaining,
   results |-> results, pending |-> pending, promise |-> promise, st |-> st,
   depth |-> depth, att |-> att, url |-> url, err |-> err, sawExt |-> sawExt,
   completed |-> completed, dispatched |-> dispatched, writes |-> writes]

Commit(s) ==
  /\ controller' = s.controller
  /\ remaining' = s.remaining
  /\ results' = s.results
  /\ pending' = s.pending
  /\ promise' = s.promise
  /\ st' = s.st
  /\ depth' = s.depth
  /\ att' = s.att
  /\ url' = s.url
  /\ err' = s.err
  /\ sawExt' = s.sawExt
  /\ completed' = s.completed
  /\ dispatched' = s.dispatched
  /\ writes' = s.writes

\* results[idx] = res on a JS array
\* (variant: results.push(res), the array in completion order)
WriteAtPush(a, idx, res) ==
  LET len == Cardinality(DOMAIN a)
  IN [j \in 0 .. len |-> IF j = len THEN res ELSE a[j]]
WriteAt(a, idx, res) ==
  LET len == Cardinality(DOMAIN a)
      new == IF idx + 1 > len THEN idx + 1 ELSE len
  IN [j \in 0 .. (new - 1) |->
        IF j = idx THEN res ELSE IF j < len THEN a[j] ELSE Hole]

\* (variant: resolve(results) left out)
resolveNothing(s, v) == s
resolve(s, v) ==
  IF s.promise.state = "pending"
  THEN [s EXCEPT !.promise = [state |-> "resolved", value |-> v, reason |-> NoErr]]
  ELSE s

reject(s, e) ==
  IF s.promise.state = "pending"
  THEN [s EXCEPT !.promise = [state |-> "rejected", value |-> <<>>, reason |-> e]]
  ELSE s

\* controller.abort(): the signal is aborted and every fetch under way on it
\* is rejected
\* (variant: no abort at all)
controllerAbortNone(s) == s
controllerAbort(s) ==
  [s EXCEPT !.controller = TRUE,
            !.att = [i \in DOMAIN s.att |->
                       IF s.st[i] = "InFlight" THEN FetchAbort(s.att[i]) ELSE s.att[i]]]

\* callWithRetry calls fn(): getTodo's fn calls fetch with controller.signal
CallFn(s, i, d) ==
  [s EXCEPT !.st[i] = "InFlight", !.depth[i] = d,
            !.att[i] = FetchStart(s.controller), !.sawExt[i] = s.ext]

\* getTodo(id, {signal}) = callWithRetry(fn, {...}) at depth 0
getTodo(s, id, idx) == CallFn([s EXCEPT !.url[idx] = id], idx, 0)

\* (variant: the last element read, remaining[remaining.length - 1], not popped)
fetchRemainingNoPop(s) ==
  IF Len(s.remaining) > 0
  THEN LET item == s.remaining[Len(s.remaining)]
           s1 == [s EXCEPT !.pending = @ + 1,
                           !.dispatched = Append(@, item)]
       IN getTodo(s1, item[1], item[2])
  ELSE IF s.pending = 0 THEN resolve(s, s.results) ELSE s
\* (variant: else { resolve(results) }, pending not looked at)
fetchRemainingEager(s) ==
  IF Len(s.remaining) > 0
  THEN LET item == s.remaining[Len(s.remaining)]
           s1 == [s EXCEPT !.remaining = SubSeq(@, 1, Len(@) - 1),
                           !.pending = @ + 1,
                           !.dispatched = Append(@, item)]
       IN getTodo(s1, item[1], item[2])
  ELSE resolve(s, s.results)
\* (variant: pending++ left out)
fetchRemainingNoCount(s) ==
  IF Len(s.remaining) > 0
  THEN LET item == s.remaining[Len(s.remaining)]
           s1 == [s EXCEPT !.remaining = SubSeq(@, 1, Len(@) - 1),
                           !.dispatched = Append(@, item)]
       IN getTodo(s1, item[1], item[2])
  ELSE IF s.pending = 0 THEN resolve(s, s.results) ELSE s
\* (variant: no else branch, resolve never called)
fetchRemainingNoResolve(s) ==
  IF Len(s.remaining) > 0
  THEN LET item == s.remaining[Len(s.remaining)]
           s1 == [s EXCEPT !.remaining = SubSeq(@, 1, Len(@) - 1),
                           !.pending = @ + 1,
                           !.dispatched = Append(@, item)]
       IN getTodo(s1, item[1], item[2])
  ELSE s
\* (variant: remaining.shift(), the item taken from the front of the queue)
fetchRemainingShift(s) ==
  IF Len(s.remaining) > 0
  THEN LET item == s.remaining[1]
           s1 == [s EXCEPT !.remaining = SubSeq(@, 2, Len(@)),
                           !.pending = @ + 1,
                           !.dispatched = Append(@, item)]
       IN getTodo(s1, item[1], item[2])
  ELSE IF s.pending = 0 THEN resolve(s, s.results) ELSE s
fetchRemaining(s) ==
  IF Len(s.remaining) > 0
  THEN LET item == s.remaining[Len(s.remaining)]
           s1 == [s EXCEPT !.remaining = SubSeq(@, 1, Len(@) - 1),
                           !.pending = @ + 1,
                           !.dispatched = Append(@, item)]
       IN getTodo(s1, item[1], item[2])
  ELSE IF s.pending = 0 THEN resolve(s, s.results) ELSE s

\* the then callback of fetchRemaining
\* (variant: fetchRemaining() left out, the worker stops after one item)
onFulfilledNoRefill(s, idx, res) ==
  [s EXCEPT !.results = WriteAt(@, idx, res),
            !.writes[idx] = @ + 1,
            !.pending = @ - 1]
\* (variant: pending-- left out)
onFulfilledNoDecrement(s, idx, res) ==
  fetchRemaining([s EXCEPT !.results = WriteAt(@, idx, res),
                           !.writes[idx] = @ + 1])
onFulfilled(s, idx, res) ==
  fetchRemaining([s EXCEPT !.results = WriteAt(@, idx, res),
                           !.writes[idx] = @ + 1,
                           !.pending = @ - 1])

\* the catch callback of fetchRemaining
\* (variant: the error swallowed, reject never called)
onRejectedSwallow(s, e) == controllerAbort(s)
\* (variant: the failed item counted off like a finished one)
onRejectedCountsDown(s, e) == reject(controllerAbort([s EXCEPT !.pending = @ - 1]), e)
\* (variant: reject put off until no other item is under way)
onRejectedAwaitOthers(s, e) ==
  IF \E j \in DOMAIN s.st : s.st[j] \in {"InFlight", "Waiting"}
  THEN controllerAbort(s)
  ELSE reject(controllerAbort(s), e)
\* (variant: the catch callback goes on to the next item as the then callback does)
onRejectedRefill(s, e) == fetchRemaining(reject(controllerAbort(s), e))
onRejected(s, e) == reject(controllerAbort(s), e)

\* for (let i = 0; i < limit; i++) fetchRemaining()
\* (variant: i <= limit)
RECURSIVE StartWorkersInclusive(_, _)
StartWorkersInclusive(s, n) ==
  IF n < 0 THEN s ELSE StartWorkersInclusive(fetchRemaining(s), n - 1)
\* (variant: a do-while loop, fetchRemaining() called once before i < limit is tested)
RECURSIVE StartWorkersAtLeastOnce(_, _)
StartWorkersAtLeastOnce(s, n) ==
  IF n <= 1 THEN fetchRemaining(s) ELSE StartWorkersAtLeastOnce(fetchRemaining(s), n - 1)
RECURSIVE StartWorkers(_, _)
StartWorkers(s, n) == IF n <= 0 THEN s ELSE StartWorkers(fetchRemaining(s), n - 1)

\* ids.slice(0, ids.length).map((id, index) => [id, index]).reverse()
\* (variant: reverse() left out, the last id popped first)
PairsNoReverse(l) == [k \in 1 .. Len(l) |-> <<l[k], k - 1>>]
\* (variant: every pair given index 0)
PairsNoIndex(l) == Reverse([k \in 1 .. Len(l) |-> <<l[k], 0>>])
Pairs(l) == Reverse([k \in 1 .. Len(l) |-> <<l[k], k - 1>>])

\* the ids arguments tried: every length up to MaxN, identifiers ascending or
\* descending, so that no identifier equals its index and no two are equal
IdSeqs ==
  UNION {{[k \in 1 .. n |-> 6 + k], [k \in 1 .. n |-> 7 + n - k]} : n \in 0 .. MaxN}

GetTodosOpts ==
  {NoOpt} \cup {[limit |-> k] : k \in 0 .. MaxK}
  \cup {[signal |-> "ext"]} \cup {[limit |-> k, signal |-> "ext"] : k \in 0 .. MaxK}

NoSnap == [done |-> FALSE, called |-> FALSE, inFlight |-> FALSE, unfinished |-> FALSE,
           settled |-> FALSE]

InFlightItems == {i \in Items : st[i] \in {"InFlight", "Waiting"}}

CwIdle == [state |-> "idle", depth |-> 0, calls |-> 0, waits |-> <<>>, thrown |-> 0]

\* the opt arguments tried on callWithRetry alone: none, getTodo's, every
\* full record within the bounds, and records that leave fields to the defaults
RetryOpts ==
  {NoOpt, GetTodoRetryOpt}
  \cup {[limit |-> l, cap |-> c, base |-> b, exp |-> x] :
          l \in 0 .. MaxLimit, c \in 0 .. MaxCap, b \in 0 .. MaxBase, x \in 0 .. MaxExp}
  \cup {[limit |-> l] : l \in 0 .. MaxLimit}
  \cup {[cap |-> c, base |-> b] : c \in 0 .. MaxCap, b \in 0 .. MaxBase}

\* ------------------------------------- range-based getTodos over withRetry
NoRgErr == [id |-> 0, left |-> -1]

\* the (from, to) arguments tried: ranges of 0 .. MaxRange ids
RangeArgs == {<<f, t>> : f \in 1 .. 2, t \in 1 .. (MaxRange + 1)}

RangeIds(r) == r.from .. (r.to - 1)

\* before the call; left[n] is the n of the withRetry call running for id n
RgIdle(f, t) ==
  [called |-> FALSE, from |-> f, to |-> t,
   aborted |-> FALSE, reason |-> NoRgErr,
   rst |-> [n \in f .. (t - 1) |-> "none"],
   left |-> [n \in f .. (t - 1) |-> 0],
   rerr |-> [n \in f .. (t - 1) |-> NoRgErr],
   promise |-> [state |-> "pending", value |-> <<>>, reason |-> NoRgErr]]

\* Promise.all(promises) as promise n fulfils or rejects; the promise of the
\* async getTodos follows it
getTodoFulfils(r, n) ==
  LET r1 == [r EXCEPT !.rst[n] = "fulfilled"]
  IN IF r1.promise.state = "pending" /\ \A m \in RangeIds(r1) : r1.rst[m] = "fulfilled"
     THEN [r1 EXCEPT !.promise =
             [state |-> "resolved",
              value |-> [k \in 1 .. (r.to - r.from) |-> Todo(r.from + k - 1)],
              reason |-> NoRgErr]]
     ELSE r1

getTodoRejects(r, n, e) ==
  LET r1 == [r EXCEPT !.rst[n] = "rejected", !.rerr[n] = e]
  IN IF r1.promise.state = "pending"
     THEN [r1 EXCEPT !.promise = [state |-> "rejected", value |-> <<>>, reason |-> e]]
     ELSE r1

\* withRetry(k, signal)(body) for id n: signal.throwIfAborted(), then body()
withRetry(r, n, k) ==
  IF r.aborted
  THEN getTodoRejects(r, n, r.reason)
  ELSE [r EXCEPT !.rst[n] = "running", !.left[n] = k]

\* for (let n = from; n < to; n++) promises.push(getTodo(n, controller.signal))
RECURSIVE PushGetTodos(_, _)
PushGetTodos(r, n) ==
  IF n >= r.to THEN r ELSE PushGetTodos(withRetry(r, n, RangeRetries), n + 1)

\* Promise.all(promises): a promise is made, already resolved if promises is
\* empty; nothing is thrown, a rejection is reported through the promise
PromiseAll(r) ==
  [threw |-> FALSE,
   r |-> IF RangeIds(r) = {}
         THEN [r EXCEPT !.promise = [state |-> "resolved", value |-> <<>>,
                                     reason |-> NoRgErr]]
         ELSE r]

\* try { return Promise.all(promises); } catch (e) { controller.abort(e);
\* throw e; }: the promise is returned without await, so the catch clause
\* runs only if the call of Promise.all itself throws
tryReturnPromiseAll(r) ==
  LET all == PromiseAll(r)
  IN IF all.threw
     THEN [all.r EXCEPT !.aborted = TRUE, !.reason = NoRgErr,
                        !.promise = [state |-> "rejected", value |-> <<>>,
                                     reason |-> NoRgErr]]
     ELSE all.r

\* ------------------------------------------------- withRetry on its own
\* the errors a call of withRetry can end with: the error body rejected with
\* on its call-th invocation, or the reason of the aborted signal
NoWrErr == [kind |-> "none", call |-> 0]

BodyError(k) == [kind |-> "body", call |-> k]

AbortReason == [kind |-> "abort", call |-> 0]

\* before the call of withRetry(n)(body) (sig FALSE) or of
\* withRetry(n, signal)(body) (sig TRUE), body being a fetch of a todo that is
\* handed the signal when there is one
WrIdle(n, sig) ==
  [state |-> "idle", sig |-> sig, n |-> n, left |-> n, calls |-> 0, att |-> "none",
   aborted |-> FALSE, callsAtAbort |-> -1, value |-> 0, thrown |-> NoWrErr]

\* if (n > 0)
\* (variant: n >= 0)
RetriesLeftInclusive(k) == k >= 0
RetriesLeft(k) == k > 0

\* signal.throwIfAborted()
\* (variant: the check left out)
throwIfAbortedNever(w) == FALSE
throwIfAborted(w) == w.aborted

\* try { return await body(...args) }: body is invoked, for the calls-th time
invokeBody(w, k) ==
  [w EXCEPT !.state = "running", !.left = k, !.calls = @ + 1,
            !.att = FetchStart(w.aborted)]

\* withRetry(k)(body)(...args) up to its first await
withLimitedRetry(w, k) == invokeBody(w, k)

\* withRetry(k, signal)(body) up to its first await: the check stands before
\* the try block, so what it throws is the rejection of this call
withRetrySignal(w, k) ==
  IF throwIfAborted(w)
  THEN [w EXCEPT !.state = "thrown", !.thrown = AbortReason]
  ELSE invokeBody(w, k)

\* catch (e) { if (n > 0) { return await withRetry(n - 1 ...)(body) } throw e }:
\* the call made in the catch block is not inside a try block, so its
\* rejection passes through every level above unchanged
bodyRejected(w, e) ==
  IF RetriesLeft(w.left)
  THEN IF w.sig THEN withRetrySignal(w, w.left - 1) ELSE withLimitedRetry(w, w.left - 1)
  ELSE [w EXCEPT !.state = "thrown", !.thrown = e]

\* the n arguments tried
RetryCounts == (0 .. MaxRetries) \cup {RangeRetries}
NoChErr == [idx |-> -1]

ChunkIdSeqs == {[k \in 1 .. n |-> 6 + k] : n \in 0 .. MaxChunkN}

\* before the call; fst[k] is the fetch of ids[k]: none, running, ok, failed
ChIdle(l) ==
  [called |-> FALSE, ids |-> l, i |-> 0,
   fst |-> [k \in 0 .. (Len(l) - 1) |-> "none"],
   todos |-> <<>>,
   promise |-> [state |-> "pending", value |-> <<>>, reason |-> NoChErr]]

\* the indices of ids.slice(i, i + chunkSize)
\* (variant: slice(i, i + chunkSize + 1))
ChunkOfInclusive(c, i) == {k \in 0 .. (Len(c.ids) - 1) : i <= k /\ k <= i + ChunkSize}
ChunkOf(c, i) == {k \in 0 .. (Len(c.ids) - 1) : i <= k /\ k < i + ChunkSize}

\* the fetches a chunk still has under way
ChRunning(c) == {k \in 0 .. (Len(c.ids) - 1) : c.fst[k] = "running"}

\* Promise.all(chunk.map(getTodo)) is fulfilled: every fetch of the chunk is
\* (variant: Promise.any, one fulfilled fetch is enough)
chunkAnyFulfilled(c) == \E k \in ChunkOf(c, c.i) : c.fst[k] = "ok"
chunkFulfilled(c) == \A k \in ChunkOf(c, c.i) : c.fst[k] = "ok"

\* the array Promise.all is fulfilled with: the values in the order of chunk
chunkValues(c) ==
  [j \in 1 .. Cardinality(ChunkOf(c, c.i)) |-> Todo(c.ids[c.i + j])]

\* one round of the for loop from its test on: the next chunk is mapped over
\* getTodo and awaited, or the loop ends and todos is returned
chunkLoop(c, i) ==
  IF i < Len(c.ids)
  THEN [c EXCEPT !.i = i,
                 !.fst = [k \in DOMAIN @ |->
                            IF k \in ChunkOf(c, i) THEN "running" ELSE @[k]]]
  ELSE [c EXCEPT !.i = i,
                 !.promise = [state |-> "resolved", value |-> c.todos,
                              reason |-> NoChErr]]

\* the sequential getTodos on a run where every fetch succeeds: todos.push(
\* await getTodo(id)) for every id in turn
getTodosSequential(l) == [k \in 1 .. Len(l) |-> Todo(l[k])]

\* ------------------------------------------- Effect: getTodo and its retry
\* before the effect is run; sched.n counts the steps of the schedule,
\* sched.start is the time of its first step (-1: not yet stepped)
EtIdle ==
  [stage |-> "idle", now |-> 0, runs |-> 0, tag |-> "none",
   sched |-> [n |-> 0, start |-> -1],
   delays |-> <<>>, elapsed |-> <<>>]

\* how long a request or a decoding may take
AttemptMs == {0, MaxAttemptMs}

\* Schedule.exponential(Duration.millis(10), 2.0): always recurs, the delay
\* after n recurrences is base * factor^n (2^n is not computed past
\* MaxExpSteps, where it is far beyond the spacing it is united with)
ScheduleExponential(n) ==
  ExpBaseMs * Pow(ExpFactor, IF n < MaxExpSteps THEN n ELSE MaxExpSteps)

\* Schedule.spaced(() => Duration.seconds(1)): always recurs, 1 s apart
ScheduleSpaced(n) == SpacedMs

\* Schedule.either: recurs while either side does, after the shorter delay
ScheduleEither(d1, d2) == Min(d1, d2)

\* Schedule.elapsed: the time since the first step of the schedule
ScheduleElapsed(s, now) == IF s.start < 0 THEN 0 ELSE now - s.start

\* one step of defaultRetrySchedule at time now: the delay of
\* exponential either spaced, the output of elapsed, and whileOutput's test
\* (variant: either(spaced) left out)
defaultRetryScheduleNoCap(s, now) ==
  [delay |-> ScheduleExponential(s.n),
   out |-> ScheduleElapsed(s, now),
   continue |-> ScheduleElapsed(s, now) <= MaxElapsedMs,
   sched |-> [n |-> s.n + 1, start |-> IF s.start < 0 THEN now ELSE s.start]]
defaultRetrySchedule(s, now) ==
  [delay |-> ScheduleEither(ScheduleExponential(s.n), ScheduleSpaced(s.n)),
   out |-> ScheduleElapsed(s, now),
   continue |-> ScheduleElapsed(s, now) <= MaxElapsedMs,
   sched |-> [n |-> s.n + 1, start |-> IF s.start < 0 THEN now ELSE s.start]]

\* the test of Schedule.whileInput: error._tag !== "JsonBodyError"
\* (variant: no test, every error retried)
RetryableTagAny(tag) == TRUE
RetryableTag(tag) == tag # "JsonBodyError"

\* Effect.retry(schedule whileInput ...) on a failure tagged tag at time e.now:
\* the schedule is stepped; it grants a recurrence (the effect sleeps for the
\* delay and is run again) or is done (the failure propagates)
retryStep(e, tag) ==
  LET d == defaultRetrySchedule(e.sched, e.now)
  IN IF d.continue /\ RetryableTag(tag)
     THEN [e EXCEPT !.stage = "sleep", !.tag = tag, !.sched = d.sched,
                    !.delays = Append(@, d.delay), !.elapsed = Append(@, d.out)]
     ELSE [e EXCEPT !.stage = "failed", !.tag = tag, !.sched = d.sched,
                    !.elapsed = Append(@, d.out)]

\* ------------------------------------------- Effect: getTodos, forEachPar
\* before the effect is run, on ids 1 .. n; stage[i] is where the fiber of id
\* i stands, aborted[i] whether abort() was called on the AbortController of
\* its latest request, recurs[i] the recurrences its schedule has granted
EaIdle(n) ==
  [stage |-> [i \in 1 .. n |-> "idle"],
   aborted |-> [i \in 1 .. n |-> FALSE],
   recurs |-> [i \in 1 .. n |-> 0],
   exit |-> [state |-> "none", id |-> 0, tag |-> "none"],
   atFailure |-> [i \in 1 .. n |-> "idle"]]

\* request(input, init): a new AbortController, fetch started on its signal
request(e, i) == [e EXCEPT !.stage[i] = "request", !.aborted[i] = FALSE]

\* the canceller request hands to asyncInterrupt: controller.abort()
\* (variant: a canceller that does nothing)
cancelRequestNothing(e, i) == e
cancelRequest(e, i) == [e EXCEPT !.aborted[i] = TRUE]

\* the fiber of id i is interrupted: if it is suspended in request, the
\* canceller runs; a fiber decoding or sleeping has no request to cancel
interruptFiber(e, i) ==
  IF e.stage[i] = "request"
  THEN [cancelRequest(e, i) EXCEPT !.stage[i] = "interrupted"]
  ELSE IF e.stage[i] \in {"json", "sleep"}
       THEN [e EXCEPT !.stage[i] = "interrupted"]
       ELSE e

RECURSIVE interruptOthers(_, _, _)
interruptOthers(e, i, j) ==
  IF j > Len(e.stage) THEN e
  ELSE interruptOthers(IF j = i THEN e ELSE interruptFiber(e, j), i, j + 1)

\* getTodo(id i) fails with tag: forEachPar fails with it and interrupts the
\* fibers of the other ids
getTodoFails(e, i, tag) ==
  LET e1 == [e EXCEPT !.stage[i] = "failed",
                      !.exit = [state |-> "failed", id |-> i, tag |-> tag],
                      !.atFailure = e.stage]
  IN interruptOthers(e1, i, 1)

\* getTodo(id i) succeeds: forEachPar succeeds once every id has
getTodoSucceeds(e, i) ==
  LET e1 == [e EXCEPT !.stage[i] = "succeeded"]
  IN IF \A j \in DOMAIN e1.stage : e1.stage[j] = "succeeded"
     THEN [e1 EXCEPT !.exit = [state |-> "succeeded", id |-> 0, tag |-> "none"]]
     ELSE e1

\* ---------------------------------------------------------------- actions
PoolInit(idSeqs, opts) ==
  /\ called = FALSE
  /\ ids \in idSeqs
  /\ opt \in opts
  /\ extAborted = FALSE
  /\ controller = FALSE
  /\ remaining = <<>>
  /\ results = <<>>
  /\ pending = 0
  /\ promise = [state |-> "pending", value |-> <<>>, reason |-> NoErr]
  /\ st = [i \in Items |-> "Queued"]
  /\ depth = [i \in Items |-> 0]
  /\ att = [i \in Items |-> "none"]
  /\ url = [i \in Items |-> 0]
  /\ err = [i \in Items |-> NoErr]
  /\ sawExt = [i \in Items |-> FALSE]
  /\ completed = <<>>
  /\ dispatched = <<>>
  /\ writes = [i \in Items |-> 0]
  /\ abortSnap = NoSnap

Init ==
  /\ PoolInit(IdSeqs, GetTodosOpts)
  /\ cwOpt = NoOpt
  /\ cw = CwIdle
  /\ rg = RgIdle(1, 1)
  /\ wr = WrIdle(0, FALSE)
  /\ ch = ChIdle(<<>>)
  /\ et = EtIdle
  /\ ea = EaIdle(0)

\* getTodos(ids, opt) up to the return of the promise
Call ==
  /\ ~called
  /\ called' = TRUE
  /\ Commit(StartWorkers([Heap EXCEPT !.remaining = Pairs(ids)],
                         Get(opt, "limit", DefaultLimit)))
  /\ UNCHANGED <<ids, opt, extAborted, abortSnap, retryVars, rangeVars, chunkVars,
               effectVars>>

\* the caller aborts opt.signal; the listener, registered by the call, aborts
\* the controller
AbortExternal ==
  /\ "signal" \in DOMAIN opt
  /\ ~extAborted
  /\ extAborted' = TRUE
  /\ abortSnap' = [done |-> TRUE, called |-> called,
                   inFlight |-> InFlightItems # {},
                   unfinished |-> \E i \in Items : st[i] \notin {"Succeeded", "Failed"},
                   settled |-> promise.state # "pending"]
  /\ Commit(IF called THEN controllerAbort(Heap) ELSE Heap)
  /\ UNCHANGED <<called, ids, opt, retryVars, rangeVars, chunkVars, effectVars>>

\* an attempt of item i resolves: fn returns the decoded body, callWithRetry
\* and getTodo resolve with it, the then callback runs
AttemptSucceeds(i) ==
  /\ st[i] = "InFlight"
  /\ att[i] = "io"
  /\ Commit(onFulfilled([Heap EXCEPT !.st[i] = "Succeeded", !.depth[i] = 0,
                                     !.completed = Append(@, i)],
                        i, Todo(url[i])))
  /\ UNCHANGED <<called, ids, opt, extAborted, abortSnap, retryVars, rangeVars, chunkVars,
               effectVars>>

\* an attempt of item i rejects: the catch block of callWithRetry either
\* rethrows (getTodo rejects, the catch callback runs) or starts the wait
AttemptFails(i) ==
  /\ st[i] = "InFlight"
  /\ \E kind \in FailureKinds(att[i]) :
       LET e == [kind |-> kind, idx |-> i, depth |-> depth[i]]
       IN Commit(IF GivesUp(GetTodoRetryOpt, depth[i])
                 THEN onRejected([Heap EXCEPT !.st[i] = "Failed", !.depth[i] = 0,
                                              !.err[i] = e], e)
                 ELSE [Heap EXCEPT !.st[i] = "Waiting"])
  /\ UNCHANGED <<called, ids, opt, extAborted, abortSnap, retryVars, rangeVars, chunkVars,
               effectVars>>

\* the backoff timer of item i fires: callWithRetry(fn, opt, depth + 1)
WaitElapses(i) ==
  /\ st[i] = "Waiting"
  /\ Commit(CallFn(Heap, i, depth[i] + 1))
  /\ UNCHANGED <<called, ids, opt, extAborted, abortSnap, retryVars, rangeVars, chunkVars,
               effectVars>>

Next ==
  \/ Call
  \/ AbortExternal
  \/ \E i \in Items : AttemptSucceeds(i)
  \/ \E i \in Items : AttemptFails(i)
  \/ \E i \in Items : WaitElapses(i)

Spec == Init /\ [][Next]_vars

\* ------------------------------------------------- callWithRetry on its own
\* a caller runs callWithRetry(fn, opt) with an fn whose every call may resolve
\* or reject; the error of the k-th call of fn is named k
InitRetry ==
  /\ PoolInit({<<>>}, {NoOpt})
  /\ cwOpt \in RetryOpts
  /\ cw = CwIdle
  /\ rg = RgIdle(1, 1)
  /\ wr = WrIdle(0, FALSE)
  /\ ch = ChIdle(<<>>)
  /\ et = EtIdle
  /\ ea = EaIdle(0)

\* callWithRetry(fn, opt): depth = 0, fn() is called
CwCall ==
  /\ cw.state = "idle"
  /\ cw' = [cw EXCEPT !.state = "running", !.depth = 0, !.calls = 1]
  /\ UNCHANGED <<cwOpt, poolVars, rangeVars, chunkVars, effectVars>>

\* await fn() resolves: callWithRetry returns the value
CwFnResolves ==
  /\ cw.state = "running"
  /\ cw' = [cw EXCEPT !.state = "returned"]
  /\ UNCHANGED <<cwOpt, poolVars, rangeVars, chunkVars, effectVars>>

\* await fn() rejects: the catch block rethrows or starts the wait
CwFnRejects ==
  /\ cw.state = "running"
  /\ cw' = IF GivesUp(cwOpt, cw.depth)
            THEN [cw EXCEPT !.state = "thrown", !.thrown = cw.calls]
            ELSE [cw EXCEPT !.state = "waiting",
                            !.waits = Append(@, BackoffMs(cwOpt, cw.depth))]
  /\ UNCHANGED <<cwOpt, poolVars, rangeVars, chunkVars, effectVars>>

\* the wait is over: callWithRetry(fn, opt, depth + 1) calls fn() again
CwWaitElapses ==
  /\ cw.state = "waiting"
  /\ cw' = [cw EXCEPT !.state = "running", !.depth = @ + 1, !.calls = @ + 1]
  /\ UNCHANGED <<cwOpt, poolVars, rangeVars, chunkVars, effectVars>>

NextRetry == CwCall \/ CwFnResolves \/ CwFnRejects \/ CwWaitElapses

SpecRetry == InitRetry /\ [][NextRetry]_vars

\* the unbounded getTodos: getTodo(id) is called for every id in turn, todos[k]
\* its promise, and Promise.all(todos) is fulfilled, once the fetches of all
\* of done have succeeded, with their values in the order of todos
getTodosUnbounded(l, done) ==
  [calls |-> [k \in 1 .. Len(l) |-> <<l[k], k - 1>>],
   state |-> IF done = 0 .. (Len(l) - 1) THEN "resolved" ELSE "pending",
   value |-> IF done = 0 .. (Len(l) - 1)
             THEN [j \in 0 .. (Len(l) - 1) |-> Todo(l[j + 1])]
             ELSE <<>>]

\* ------------------------------------------- the pool on runs that succeed
\* getTodos on up to MaxN + 2 ids with a limit of 1 .. MaxK or the default, no
\* signal given, on a server where each item fails at most MaxFaults times
\* before it succeeds: no item exhausts its retries
IdSeqsNoFail == {[k \in 1 .. n |-> 6 + k] : n \in 0 .. (MaxN + 2)}

InitNoFail ==
  /\ PoolInit(IdSeqsNoFail, {NoOpt} \cup {[limit |-> k] : k \in 1 .. MaxK})
  /\ cwOpt = NoOpt
  /\ cw = CwIdle
  /\ rg = RgIdle(1, 1)
  /\ wr = WrIdle(0, FALSE)
  /\ ch = ChIdle(<<>>)
  /\ et = EtIdle
  /\ ea = EaIdle(0)

NextNoFail ==
  \/ Call
  \/ \E i \in Items : AttemptSucceeds(i)
  \/ \E i \in Items : depth[i] < MaxFaults /\ AttemptFails(i)
  \/ \E i \in Items : WaitElapses(i)

SpecNoFail == InitNoFail /\ [][NextNoFail]_vars

\* ------------------------------------------- the pool with a queue left over
\* getTodos on up to MaxN + 1 ids, with a limit of 1 .. MaxK or one that starts
\* no worker (0, -1), no signal given: every item may fail on every attempt,
\* and items are still queued while others fail
IdSeqsWide == {[k \in 1 .. n |-> 6 + k] : n \in 0 .. (MaxN + 1)}

InitWide ==
  /\ PoolInit(IdSeqsWide, {[limit |-> k] : k \in -1 .. MaxK})
  /\ cwOpt = NoOpt
  /\ cw = CwIdle
  /\ rg = RgIdle(1, 1)
  /\ wr = WrIdle(0, FALSE)
  /\ ch = ChIdle(<<>>)
  /\ et = EtIdle
  /\ ea = EaIdle(0)

NextWide ==
  \/ Call
  \/ \E i \in Items : AttemptSucceeds(i)
  \/ \E i \in Items : AttemptFails(i)
  \/ \E i \in Items : WaitElapses(i)

SpecWide == InitWide /\ [][NextWide]_vars

\* ------------------------------------------------ the pool on fair runs
\* getTodos on up to MaxN ids with a limit of 1 .. MaxK, no signal given, on a
\* server and an event loop that leave nothing hanging: every attempt under
\* way is answered or fails in the end, and every backoff timer fires
IdSeqsLive == {[k \in 1 .. n |-> 6 + k] : n \in 0 .. MaxN}

InitLive ==
  /\ PoolInit(IdSeqsLive, {[limit |-> k] : k \in 1 .. MaxK})
  /\ cwOpt = NoOpt
  /\ cw = CwIdle
  /\ rg = RgIdle(1, 1)
  /\ wr = WrIdle(0, FALSE)
  /\ ch = ChIdle(<<>>)
  /\ et = EtIdle
  /\ ea = EaIdle(0)

NextLive ==
  \/ Call
  \/ \E i \in Items : AttemptSucceeds(i)
  \/ \E i \in Items : AttemptFails(i)
  \/ \E i \in Items : WaitElapses(i)

FairLive ==
  /\ WF_vars(Call)
  /\ \A i \in 0 .. (MaxN - 1) :
       /\ WF_vars(i \in Items /\ (AttemptSucceeds(i) \/ AttemptFails(i)))
       /\ WF_vars(i \in Items /\ WaitElapses(i))

SpecLive == InitLive /\ [][NextLive]_vars /\ FairLive

\* ---------------------------------------------- the range-based getTodos
InitRange ==
  /\ PoolInit({<<>>}, {NoOpt})
  /\ cwOpt = NoOpt
  /\ cw = CwIdle
  /\ rg \in {RgIdle(a[1], a[2]) : a \in RangeArgs}
  /\ wr = WrIdle(0, FALSE)
  /\ ch = ChIdle(<<>>)
  /\ et = EtIdle
  /\ ea = EaIdle(0)

\* getTodos(from, to) up to the return of its promise
RgCall ==
  /\ ~rg.called
  /\ rg' = tryReturnPromiseAll(PushGetTodos([rg EXCEPT !.called = TRUE], rg.from))
  /\ UNCHANGED <<wr, poolVars, retryVars, chunkVars, effectVars>>

\* await body() of id n resolves: withRetry returns, getTodo(n) fulfils
RgBodyResolves(n) ==
  /\ rg.rst[n] = "running"
  /\ rg' = getTodoFulfils(rg, n)
  /\ UNCHANGED <<wr, poolVars, retryVars, chunkVars, effectVars>>

\* await body() of id n rejects: the catch block of withRetry retries at once
\* while n > 0, else rethrows
RgBodyRejects(n) ==
  /\ rg.rst[n] = "running"
  /\ rg' = IF rg.left[n] > 0
            THEN withRetry(rg, n, rg.left[n] - 1)
            ELSE getTodoRejects(rg, n, [id |-> n, left |-> 0])
  /\ UNCHANGED <<wr, poolVars, retryVars, chunkVars, effectVars>>

NextRange ==
  \/ RgCall
  \/ \E n \in RangeIds(rg) : RgBodyResolves(n)
  \/ \E n \in RangeIds(rg) : RgBodyRejects(n)

SpecRange == InitRange /\ [][NextRange]_vars

\* ------------------------------------------------- withRetry on its own
\* a caller runs withRetry(n)(body)(id) or withRetry(n, signal)(body) with a
\* body whose every call may resolve or reject, and may abort the signal at
\* any time, before the call too
InitWithRetry ==
  /\ PoolInit({<<>>}, {NoOpt})
  /\ cwOpt = NoOpt
  /\ cw = CwIdle
  /\ rg = RgIdle(1, 1)
  /\ wr \in {WrIdle(n, sig) : n \in RetryCounts, sig \in BOOLEAN}
  /\ ch = ChIdle(<<>>)
  /\ et = EtIdle
  /\ ea = EaIdle(0)

\* the call: the async function runs up to await body()
WrCall ==
  /\ wr.state = "idle"
  /\ wr' = IF wr.sig THEN withRetrySignal(wr, wr.n) ELSE withLimitedRetry(wr, wr.n)
  /\ UNCHANGED <<rg, poolVars, retryVars, chunkVars, effectVars>>

\* await body() resolves: the value is returned through every level
WrBodyResolves ==
  /\ wr.state = "running"
  /\ wr.att = "io"
  /\ wr' = [wr EXCEPT !.state = "returned", !.value = wr.calls]
  /\ UNCHANGED <<rg, poolVars, retryVars, chunkVars, effectVars>>

\* await body() rejects, with an error of its own or, once the signal has
\* aborted the fetch, with the reason of the signal
WrBodyRejects ==
  /\ wr.state = "running"
  /\ wr' = bodyRejected(wr, IF wr.att = "io" THEN BodyError(wr.calls) ELSE AbortReason)
  /\ UNCHANGED <<rg, poolVars, retryVars, chunkVars, effectVars>>

\* the owner of the signal aborts it: a fetch under way on it is rejected
WrSignalAborts ==
  /\ wr.sig
  /\ ~wr.aborted
  /\ wr.state \in {"idle", "running"}
  /\ wr' = [wr EXCEPT !.aborted = TRUE, !.callsAtAbort = wr.calls,
                      !.att = IF wr.state = "running" THEN FetchAbort(@) ELSE @]
  /\ UNCHANGED <<rg, poolVars, retryVars, chunkVars, effectVars>>

NextWithRetry == WrCall \/ WrBodyResolves \/ WrBodyRejects \/ WrSignalAborts

SpecWithRetry == InitWithRetry /\ [][NextWithRetry]_vars

\* ------------------------------------------------------ the chunked getTodos
InitChunk ==
  /\ PoolInit({<<>>}, {NoOpt})
  /\ cwOpt = NoOpt
  /\ cw = CwIdle
  /\ rg = RgIdle(1, 1)
  /\ wr = WrIdle(0, FALSE)
  /\ ch \in {ChIdle(l) : l \in ChunkIdSeqs}
  /\ et = EtIdle
  /\ ea = EaIdle(0)

\* getTodos(ids) up to its first await, or to its return when ids is empty
ChCall ==
  /\ ~ch.called
  /\ ch' = chunkLoop([ch EXCEPT !.called = TRUE], 0)
  /\ UNCHANGED <<poolVars, retryVars, rangeVars, effectVars>>

\* the fetch of ids[k] succeeds; if that fulfils the Promise.all awaited, its
\* array is pushed onto todos and the loop goes on
ChFetchSucceeds(k) ==
  /\ ch.fst[k] = "running"
  /\ LET c1 == [ch EXCEPT !.fst[k] = "ok"]
     IN ch' = IF c1.promise.state = "pending" /\ chunkFulfilled(c1)
              THEN chunkLoop([c1 EXCEPT !.todos = Append(@, chunkValues(c1))],
                             c1.i + ChunkSize)
              ELSE c1
  /\ UNCHANGED <<poolVars, retryVars, rangeVars, effectVars>>

\* the fetch of ids[k] fails: Promise.all rejects unless it already has, the
\* await throws and the promise of getTodos is rejected
ChFetchFails(k) ==
  /\ ch.fst[k] = "running"
  /\ LET c1 == [ch EXCEPT !.fst[k] = "failed"]
     IN ch' = IF c1.promise.state = "pending"
              THEN [c1 EXCEPT !.promise = [state |-> "rejected", value |-> <<>>,
                                           reason |-> [idx |-> k]]]
              ELSE c1
  /\ UNCHANGED <<poolVars, retryVars, rangeVars, effectVars>>

NextChunk ==
  \/ ChCall
  \/ \E k \in DOMAIN ch.fst : ChFetchSucceeds(k)
  \/ \E k \in DOMAIN ch.fst : ChFetchFails(k)

SpecChunk == InitChunk /\ [][NextChunk]_vars

\* ------------------------------------------------- the Effect getTodo
InitEffectTodo ==
  /\ PoolInit({<<>>}, {NoOpt})
  /\ cwOpt = NoOpt
  /\ cw = CwIdle
  /\ rg = RgIdle(1, 1)
  /\ wr = WrIdle(0, FALSE)
  /\ ch = ChIdle(<<>>)
  /\ et = EtIdle
  /\ ea = EaIdle(0)

\* the effect getTodo(id) is run: Http.request starts the fetch
EtRun ==
  /\ et.stage = "idle"
  /\ et' = [et EXCEPT !.stage = "request", !.runs = 1]
  /\ UNCHANGED <<poolVars, retryVars, rangeVars, chunkVars, ea>>

\* fetch resolves: flatMap passes the response to Http.jsonBody
EtRequestSucceeds ==
  /\ et.stage = "request"
  /\ \E d \in AttemptMs : et' = [et EXCEPT !.stage = "json", !.now = @ + d]
  /\ UNCHANGED <<poolVars, retryVars, rangeVars, chunkVars, ea>>

\* fetch rejects: request fails with a FetchError
EtRequestFails ==
  /\ et.stage = "request"
  /\ \E d \in AttemptMs : et' = retryStep([et EXCEPT !.now = @ + d], "FetchError")
  /\ UNCHANGED <<poolVars, retryVars, rangeVars, chunkVars, ea>>

\* input.json() resolves: getTodo succeeds with the decoded body
EtJsonSucceeds ==
  /\ et.stage = "json"
  /\ \E d \in AttemptMs : et' = [et EXCEPT !.stage = "succeeded", !.now = @ + d]
  /\ UNCHANGED <<poolVars, retryVars, rangeVars, chunkVars, ea>>

\* input.json() rejects: jsonBody fails with a JsonBodyError
EtJsonFails ==
  /\ et.stage = "json"
  /\ \E d \in AttemptMs : et' = retryStep([et EXCEPT !.now = @ + d], "JsonBodyError")
  /\ UNCHANGED <<poolVars, retryVars, rangeVars, chunkVars, ea>>

\* the delay granted by the schedule is over: the pipeline is run again from
\* Http.request
EtSleepEnds ==
  /\ et.stage = "sleep"
  /\ et' = [et EXCEPT !.stage = "request", !.runs = @ + 1,
                      !.now = @ + et.delays[Len(et.delays)]]
  /\ UNCHANGED <<poolVars, retryVars, rangeVars, chunkVars, ea>>

NextEffectTodo ==
  \/ EtRun
  \/ EtRequestSucceeds
  \/ EtRequestFails
  \/ EtJsonSucceeds
  \/ EtJsonFails
  \/ EtSleepEnds

SpecEffectTodo == InitEffectTodo /\ [][NextEffectTodo]_vars

\* ------------------------------------------------- the Effect getTodos
\* getTodos(ids) on 0 .. MaxEffN ids; the clock is left out: at a FetchError
\* the schedule may grant a recurrence (at most MaxRecur of them) or be done
InitEffectAll ==
  /\ PoolInit({<<>>}, {NoOpt})
  /\ cwOpt = NoOpt
  /\ cw = CwIdle
  /\ rg = RgIdle(1, 1)
  /\ wr = WrIdle(0, FALSE)
  /\ ch = ChIdle(<<>>)
  /\ et = EtIdle
  /\ ea \in {EaIdle(n) : n \in 0 .. MaxEffN}

EaIds == DOMAIN ea.stage

\* the effect is run: forEachPar starts getTodo(id) for every id
EaRun ==
  /\ ea.exit.state = "none"
  /\ ea' = [ea EXCEPT !.stage = [i \in EaIds |-> "request"],
                      !.exit.state = IF EaIds = {} THEN "succeeded" ELSE "running"]
  /\ UNCHANGED <<poolVars, retryVars, rangeVars, chunkVars, et>>

\* the fetch of id i resolves: resume(Effect.succeed(response)), then jsonBody
EaRequestSucceeds(i) ==
  /\ ea.stage[i] = "request"
  /\ ea' = [ea EXCEPT !.stage[i] = "json"]
  /\ UNCHANGED <<poolVars, retryVars, rangeVars, chunkVars, et>>

\* the fetch of id i rejects: resume(Effect.fail(new FetchError(error))); the
\* schedule grants a recurrence or getTodo fails
EaRequestFails(i) ==
  /\ ea.stage[i] = "request"
  /\ \/ /\ ea.recurs[i] < MaxRecur
        /\ ea' = [ea EXCEPT !.stage[i] = "sleep", !.recurs[i] = @ + 1]
     \/ ea' = getTodoFails(ea, i, "FetchError")
  /\ UNCHANGED <<poolVars, retryVars, rangeVars, chunkVars, et>>

\* input.json() of id i resolves
EaJsonSucceeds(i) ==
  /\ ea.stage[i] = "json"
  /\ ea' = getTodoSucceeds(ea, i)
  /\ UNCHANGED <<poolVars, retryVars, rangeVars, chunkVars, et>>

\* input.json() of id i rejects: a JsonBodyError, not retried
EaJsonFails(i) ==
  /\ ea.stage[i] = "json"
  /\ ea' = getTodoFails(ea, i, "JsonBodyError")
  /\ UNCHANGED <<poolVars, retryVars, rangeVars, chunkVars, et>>

\* the delay of id i is over: request is run again
EaSleepEnds(i) ==
  /\ ea.stage[i] = "sleep"
  /\ ea' = request(ea, i)
  /\ UNCHANGED <<poolVars, retryVars, rangeVars, chunkVars, et>>

NextEffectAll ==
  \/ EaRun
  \/ \E i \in EaIds : EaRequestSucceeds(i)
  \/ \E i \in EaIds : EaRequestFails(i)
  \/ \E i \in EaIds : EaJsonSucceeds(i)
  \/ \E i \in EaIds : EaJsonFails(i)
  \/ \E i \in EaIds : EaSleepEnds(i)

SpecEffectAll == InitEffectAll /\ [][NextEffectAll]_vars

\* ------------------------------------------------------------- properties
\* the concurrency limit in force: opt?.limit ?? 5
Limit == Get(opt, "limit", DefaultLimit)

\* the array a fully successful run is to deliver
Expected == [j \in 0 .. (Len(ids) - 1) |-> Todo(ids[j + 1])]

\* C1: for every N >= 0 and K >= 1, once every item has succeeded the promise
\* is resolved, and a resolved promise carries exactly N results, the i-th the
\* value fetched for ids[i], whatever the order in which the fetches completed.
C1_ResultsInInputOrder ==
  /\ (called /\ Limit >= 1 /\ \A i \in Items : st[i] = "Succeeded")
        => promise.state = "resolved"
  /\ promise.state = "resolved"
        => /\ Cardinality(DOMAIN promise.value) = Len(ids)
           /\ promise.value = Expected

\* two items, the second completed first, and the promise resolved
C1_Witness ==
  /\ promise.state = "resolved"
  /\ Len(ids) = 2
  /\ completed = <<1, 0>>
  /\ ids[1] # ids[2]

\* C2: in every state, also after a permanent failure or a cancellation, at
\* most K items are dispatched and neither succeeded nor failed permanently.
C2_AtMostKInFlight == Cardinality(InFlightItems) <= Limit

\* after the caller's abort: K items in flight and more still queued
C2_Witness ==
  /\ extAborted
  /\ Limit >= 1
  /\ Cardinality(InFlightItems) = Limit
  /\ Len(remaining) > 0

\* C3: an item that fails on every attempt of its own (its last error is no
\* abort) makes the promise reject, never resolve, and the rejection value is
\* the error of that item's final attempt, the one made at depth limit + 1.
C3_RejectsWithFinalError ==
  \A x \in Items :
    (st[x] = "Failed" /\ err[x].kind # "AbortError")
      => /\ promise.state = "rejected"
         /\ promise.reason = err[x]
         /\ promise.reason.idx = x
         /\ promise.reason.depth = GetTodoRetryOpt.limit + 1

\* one item exhausted its retries while another succeeded
C3_Witness ==
  \E x, y \in Items :
    /\ st[x] = "Failed" /\ err[x].kind = "TypeError"
    /\ st[y] = "Succeeded"
    /\ promise.state = "rejected" /\ promise.reason = err[x]

\* C4: once an item has failed permanently the controller's signal is aborted
\* and the promise rejected (the abort comes no later than the rejection), no
\* fetch in flight is still running unaborted, and the promise is not resolved.
C4_AbortWithRejection ==
  /\ promise.state = "rejected" => controller
  /\ (\E i \in Items : st[i] = "Failed")
        => /\ controller
           /\ promise.state = "rejected"
           /\ \A j \in Items : st[j] = "InFlight" => att[j] # "io"

\* an item failed for good while another fetch was under way, now aborted
C4_Witness ==
  \E i, j \in Items :
    /\ st[i] = "Failed" /\ err[i].kind # "AbortError"
    /\ st[j] = "InFlight" /\ att[j] = "aborted"

\* the options in force in callWithRetry called on its own
CwLimit == Get(cwOpt, "limit", DefaultRetryLimit)
CwBase == Get(cwOpt, "base", DefaultBase)
CwExp == Get(cwOpt, "exp", DefaultExp)
CwCap == Get(cwOpt, "cap", DefaultCap)

\* C5 as claimed: an fn that fails on every call is called limit + 1 times
\* before the error is propagated.
C5_Claimed == cw.state = "thrown" => cw.calls = CwLimit + 1

\* C5 amended: the depth starts at 0 and rises by one per call of fn, and an fn
\* that fails on every call is called limit + 2 times (depths 0 .. limit + 1)
\* before the error of its last call is propagated.
C5_LimitPlusTwoCalls ==
  /\ cw.state # "idle" => cw.calls = cw.depth + 1
  /\ cw.state = "thrown" => /\ cw.calls = CwLimit + 2
                            /\ cw.thrown = cw.calls

\* the default limit of 10: thrown after 12 calls
C5_Witness == cw.state = "thrown" /\ cwOpt = NoOpt /\ cw.calls = 12

\* C6 as claimed: the wait before attempt d is min(cap, base^d * exp).
C6_Claimed ==
  \A d \in 1 .. Len(cw.waits) : cw.waits[d] = Min(CwCap, Pow(CwBase, d) * CwExp)

\* C6 amended: the wait before attempt d >= 1 is min(cap, base^(d-1) * exp),
\* the exponent being the depth of the attempt that has just failed.
C6_WaitBeforeAttempt ==
  \A d \in 1 .. Len(cw.waits) : cw.waits[d] = Min(CwCap, Pow(CwBase, d - 1) * CwExp)

\* three waits scheduled, the first below the cap, the third cut by it
C6_Witness ==
  /\ Len(cw.waits) >= 3
  /\ cw.waits[1] < cw.waits[2]
  /\ cw.waits[3] = CwCap
  /\ Pow(CwBase, 2) * CwExp > CwCap

\* C7 as claimed: with getTodo's options the waits double from 10 and the wait
\* before attempt 8 and every later one is 2000.
C7_Claimed ==
  cwOpt = GetTodoRetryOpt
    => \A d \in 1 .. Len(cw.waits) :
         cw.waits[d] = IF d >= 8 THEN 2000 ELSE 10 * Pow(2, d - 1)

\* C7 amended: the waits are 10, 20, 40, 80, 160, 320, 640, 1280 before
\* attempts 1 to 8 and 2000 before attempt 9 and every later one.
C7_CappedFromAttemptNine ==
  cwOpt = GetTodoRetryOpt
    => /\ Len(cw.waits) <= 11
       /\ cw.waits = SubSeq(<<10, 20, 40, 80, 160, 320, 640, 1280, 2000, 2000, 2000>>,
                            1, Len(cw.waits))

\* fn failed on every call under getTodo's options: all eleven waits were made
C7_Witness ==
  cwOpt = GetTodoRetryOpt /\ cw.state = "thrown" /\ Len(cw.waits) = 11

\* the caller aborted its signal after the call, with an item in flight
AbortedInFlight == abortSnap.done /\ abortSnap.inFlight

\* C8: after the caller aborted its signal with an item in flight, every fetch
\* attempt begun since is rejected without network I/O and none succeeds.
C8_NoIoAfterAbort ==
  AbortedInFlight
    => \A i \in Items : sawExt[i] => att[i] = "noio" /\ st[i] # "Succeeded"

\* a retry begun after the abort
C8_Witness ==
  AbortedInFlight /\ \E i \in Items : sawExt[i] /\ st[i] = "InFlight" /\ depth[i] > 0

\* C9: whenever the caller's signal is aborted, the controller's signal that
\* the fetches are given is aborted too, whether the caller aborted before or
\* after the call. (Neither signal is ever un-aborted: no action resets
\* extAborted or controller.)
C9_ControllerFollowsCaller == (called /\ extAborted) => controller

\* the caller aborted its signal after the call of getTodos with a limit
\* K >= 1, while the promise was pending and an item unfinished
AbortedLive ==
  /\ Limit >= 1
  /\ abortSnap.done /\ abortSnap.called /\ abortSnap.unfinished /\ ~abortSnap.settled

\* C10: after the caller aborted a running operation (K >= 1, the promise
\* pending, an item unfinished) the promise is never
\* resolved; once no dispatched item is left running it is rejected; and the
\* rejection value is an AbortError, no transport or decode error.
C10_AbortRejects ==
  AbortedLive
    => /\ promise.state # "resolved"
       /\ InFlightItems = {} => promise.state = "rejected"
       /\ promise.state = "rejected" => promise.reason.kind = "AbortError"

\* rejected with the AbortError of an item's last attempt
C10_Witness ==
  /\ AbortedLive
  /\ promise.state = "rejected"
  /\ promise.reason.kind = "AbortError"
  /\ promise.reason.depth = GetTodoRetryOpt.limit + 1

\* C11 as claimed: a decode error (SyntaxError of res.json()) is not retried:
\* it reaches the caller from the item's first attempt.
C11_Claimed ==
  \A x \in Items : (st[x] = "Failed" /\ err[x].kind = "SyntaxError") => err[x].depth = 0

\* C11 amended: callWithRetry retries a decode error like a transport error;
\* a decode error reaches the caller only as the error of an item's last
\* attempt (depth limit + 1), and then the promise is rejected with it and the
\* controller's signal aborted.
C11_DecodeErrorRetried ==
  \A x \in Items :
    (st[x] = "Failed" /\ err[x].kind = "SyntaxError")
      => /\ err[x].depth = GetTodoRetryOpt.limit + 1
         /\ promise.state = "rejected" /\ promise.reason.kind = "SyntaxError"
         /\ promise.reason.idx = x
         /\ controller

\* a decode error on the last attempt of an item, a sibling still at work
C11_Witness ==
  \E x, y \in Items :
    /\ st[x] = "Failed" /\ err[x].kind = "SyntaxError"
    /\ st[y] \in {"InFlight", "Waiting"}
    /\ promise.reason = err[x]

\* the transitions of one work item
AllowedTransitions ==
  {<<"Queued", "InFlight">>, <<"InFlight", "Succeeded">>, <<"InFlight", "Waiting">>,
   <<"Waiting", "InFlight">>, <<"InFlight", "Failed">>}

\* the indices of the items a step dispatches
NewlyDispatched ==
  {dispatched'[k][2] : k \in (Len(dispatched) + 1) .. Len(dispatched')}

C12_Step ==
  \A i \in Items :
    /\ st[i] # st'[i] => <<st[i], st'[i]>> \in AllowedTransitions
    /\ st[i] \in {"Succeeded", "Failed"}
         => /\ st'[i] = st[i] /\ att'[i] = att[i]
            /\ depth'[i] = depth[i] /\ url'[i] = url[i]
    /\ i \in NewlyDispatched => st[i] = "Queued" /\ st'[i] = "InFlight"

\* C12: in every step an item changes state only along Queued -> InFlight,
\* InFlight -> Succeeded, InFlight -> Waiting, Waiting -> InFlight or
\* InFlight -> Failed; only a queued item is dispatched; an item that has
\* succeeded or failed permanently keeps its state and gets no further attempt.
C12_OnlyAllowedTransitions == [][C12_Step]_vars

\* one item succeeded at once, the other retried to its permanent failure
C12_Witness ==
  \E x, y \in Items :
    /\ st[x] = "Succeeded" /\ st[y] = "Failed"
    /\ completed = <<x>> /\ Len(dispatched) = 2
    /\ err[y].depth > 0

\* C13: whenever the promise is resolved the queue of remaining items is
\* empty, the pending counter is zero and every submitted item has succeeded.
C13_ResolvedOnlyWhenAllDone ==
  promise.state = "resolved"
    => /\ remaining = <<>>
       /\ pending = 0
       /\ \A i \in Items : st[i] = "Succeeded"
       /\ Len(completed) = Len(ids)

\* two items fetched one after the other by a single worker, then resolved
C13_Witness ==
  /\ promise.state = "resolved"
  /\ Limit = 1
  /\ Len(ids) = 2
  /\ completed = <<0, 1>>

C14_Step ==
  ((\A i \in Items : st[i] # "Failed") /\ (\E i \in Items : st'[i] = "Failed"))
    => /\ promise.state = "pending"
       /\ promise'.state = "rejected"
       /\ \E i \in Items :
            /\ st'[i] = "Failed"
            /\ promise'.reason = err'[i]
            /\ \A j \in Items \ {i} : st'[j] = st[j]

\* C14: the step in which the first item fails permanently takes the promise
\* from pending to rejected with that item's error, and leaves every other
\* item in the state it was in: none of them had to finish, succeed or abort.
C14_RejectedWithFirstFailure == [][C14_Step]_vars

\* rejected while a sibling's aborted fetch has not yet reported back
C14_Witness ==
  \E x, y \in Items :
    /\ st[x] = "Failed" /\ err[x].kind = "TypeError"
    /\ st[y] = "InFlight" /\ att[y] = "aborted"
    /\ promise.state = "rejected" /\ promise.reason = err[x]

\* C15 as claimed: pending is the number of items in flight in every state,
\* also after a permanent failure.
C15_Claimed == pending = Cardinality(InFlightItems)

\* C15 amended: pending is the number of items dispatched and not yet
\* succeeded, that is the items in flight plus the permanently failed ones
\* (the catch callback does not decrement it); as long as no item has failed
\* permanently it is the number of items in flight.
C15_PendingCountsUnsucceeded ==
  /\ pending = Cardinality(InFlightItems) + Cardinality({i \in Items : st[i] = "Failed"})
  /\ (\A i \in Items : st[i] # "Failed") => pending = Cardinality(InFlightItems)

\* one item failed permanently, one in flight, pending still 2
C15_Witness ==
  /\ pending = 2
  /\ Cardinality(InFlightItems) = 1
  /\ \E i \in Items : st[i] = "Failed"

\* the indices dispatched so far, and those still in the queue
DispatchedIdx == {dispatched[k][2] : k \in 1 .. Len(dispatched)}
QueuedIdx == {remaining[k][2] : k \in 1 .. Len(remaining)}

\* C16: every [id, index] pair leaves the queue at most once (no index is
\* dispatched twice, and a dispatched pair is no longer queued); every result
\* slot is assigned at most once, only for an item that was dispatched and has
\* succeeded, and holds the value fetched for that item's own id.
C16_DispatchedAndWrittenOnce ==
  /\ Cardinality(DispatchedIdx) = Len(dispatched)
  /\ Cardinality(QueuedIdx) = Len(remaining)
  /\ DispatchedIdx \cap QueuedIdx = {}
  /\ called => DispatchedIdx \cup QueuedIdx = Items
  /\ \A k \in 1 .. Len(dispatched) :
       dispatched[k] = <<ids[dispatched[k][2] + 1], dispatched[k][2]>>
  /\ \A i \in Items :
       /\ writes[i] <= 1
       /\ writes[i] = 1 <=> st[i] = "Succeeded"
       /\ writes[i] = 1
            => /\ i \in DispatchedIdx
               /\ i \in DOMAIN results
               /\ results[i] = Todo(ids[i + 1])
               /\ url[i] = ids[i + 1]

\* a single worker took both items in turn and each slot was written once
C16_Witness ==
  /\ Limit = 1
  /\ Len(dispatched) = 2
  /\ \A i \in Items : writes[i] = 1
  /\ results = Expected

\* C18: getTodos([]) with a limit K >= 1 has its promise resolved with the
\* empty array as soon as the call has returned, and dispatches nothing.
C18_EmptyInputResolvesAtOnce ==
  (called /\ ids = <<>> /\ Limit >= 1)
    => /\ promise.state = "resolved"
       /\ promise.value = <<>>
       /\ dispatched = <<>>
       /\ pending = 0

\* the call on no ids with a single worker, the caller's signal aborted later
C18_Witness ==
  /\ called /\ ids = <<>> /\ Limit = 1
  /\ extAborted
  /\ promise.state = "resolved"

\* C17: on a run on which no item fails permanently, the number of items
\* dispatched is min(N, K + number of items completed): min(K, N) after the
\* start-up loop, one more in the step of each completion while the queue
\* lasts; so whenever the queue is non-empty exactly K items are outstanding,
\* and pending counts them.
C17_KOutstandingWhileQueued ==
  (called /\ \A i \in Items : st[i] # "Failed")
    => /\ Len(dispatched) = Min(Len(ids), Limit + Len(completed))
       /\ completed = <<>> => Len(dispatched) = Min(Limit, Len(ids))
       /\ remaining # <<>>
            => Cardinality(InFlightItems) = Limit /\ pending = Limit

\* a worker finished an item and took the next, the queue still not empty,
\* another item waiting to be retried
C17_Witness ==
  /\ completed # <<>>
  /\ remaining # <<>>
  /\ Len(dispatched) = Limit + Len(completed)
  /\ Cardinality(InFlightItems) = Limit
  /\ \E i \in Items : st[i] = "Waiting"

\* C19: with K >= N, and as long as no item has failed permanently, the pool
\* is in the state of the unbounded getTodos on the same ids and the same
\* fetches succeeded: every item was dispatched by the call, in the order of
\* ids, none is left queued, and the promise is resolved exactly when every
\* fetch has succeeded, with the values in the order of ids.
C19_LikeUnbounded ==
  (called /\ Limit >= 1 /\ Limit >= Len(ids) /\ \A i \in Items : st[i] # "Failed")
    => LET u == getTodosUnbounded(ids, {i \in Items : st[i] = "Succeeded"})
       IN /\ dispatched = u.calls
          /\ remaining = <<>>
          /\ promise.state = u.state
          /\ promise.value = u.value

\* three or more ids under the default limit, the first fetch to complete not
\* the first dispatched, the promise resolved
C19_Witness ==
  /\ Len(ids) >= 3
  /\ Limit = DefaultLimit
  /\ promise.state = "resolved"
  /\ completed[1] > completed[2]
  /\ promise.value[0] = Todo(ids[1])

\* C20 as claimed: whenever the promise of the range-based getTodos is
\* rejected, controller.abort has been called with the error it is rejected
\* with (the signal the requests of the other ids run on is aborted).
C20_AbortBeforeRejection ==
  rg.promise.state = "rejected"
    => /\ rg.aborted
       /\ rg.reason = rg.promise.reason

\* C22: every wait callWithRetry schedules lies between 0 and cap, and with
\* base >= 1 no wait is shorter than the one before it (cap >= 0, exp >= 0).
C22_WaitsBoundedAndMonotone ==
  /\ \A d \in 1 .. Len(cw.waits) : 0 <= cw.waits[d] /\ cw.waits[d] <= CwCap
  /\ CwBase >= 1
       => \A d \in 2 .. Len(cw.waits) : cw.waits[d - 1] <= cw.waits[d]

\* four waits: growing, then held at the cap
C22_Witness ==
  /\ Len(cw.waits) = 4
  /\ CwBase >= 2
  /\ 0 < cw.waits[1] /\ cw.waits[1] < cw.waits[2] /\ cw.waits[2] < cw.waits[3]
  /\ cw.waits[3] = CwCap /\ cw.waits[4] = CwCap

C26_Step ==
  /\ (cw.state = "running" /\ cw'.state = "waiting")
       => /\ cw.depth <= CwLimit
          /\ cw'.depth = cw.depth
          /\ cw'.waits = Append(cw.waits, Min(CwCap, Pow(CwBase, cw.depth) * CwExp))
  /\ (cw.state = "waiting" /\ cw'.state = "running")
       => /\ cw'.depth = cw.depth + 1
          /\ cw'.waits = cw.waits

\* C26: the step in which an attempt at depth d fails and is to be retried
\* (d <= limit) schedules the wait min(cap, base^d * exp) and leaves the depth
\* at d; the step that ends the wait starts the next attempt at depth d + 1.
C26_WaitFromFailedDepth == [][C26_Step]_vars

\* the attempt at depth 2 is running after two waits, the second the longer
C26_Witness ==
  /\ cw.state = "running" /\ cw.depth = 2
  /\ Len(cw.waits) = 2
  /\ cw.waits[2] = CwBase * CwExp /\ cw.waits[1] = CwExp
  /\ cw.waits[1] < cw.waits[2]

\* C27: pending is the number of items dispatched so far minus the number of
\* items whose fetch has succeeded, and is never negative.
C27_NoLostUpdate ==
  /\ pending = Len(dispatched) - Len(completed)
  /\ pending >= 0

\* one item succeeded, then the other failed permanently
C27_Witness ==
  /\ Len(dispatched) = 2 /\ Len(completed) = 1
  /\ \E i \in Items : st[i] = "Failed"
  /\ pending = 1

C30_Step == promise.state # "pending" => promise' = promise

\* C30: a settled promise never changes again, and once an item has failed
\* permanently the promise is rejected and pending is at least 1, so that the
\* branch pending === 0 of fetchRemaining cannot be taken.
C30_SettledOnce ==
  /\ [][C30_Step]_vars
  /\ []((\E i \in Items : st[i] = "Failed")
          => promise.state = "rejected" /\ pending >= 1)

\* both items failed permanently, the promise rejected with the error of one
C30_Witness ==
  /\ Len(ids) = 2
  /\ \A i \in Items : st[i] = "Failed"
  /\ promise.state = "rejected"
  /\ \E i \in Items : promise.reason # err[i]

\* C21: the chunked getTodos never has more than chunkSize (5) fetches in
\* flight, whatever the number of ids.
C21_AtMostChunkSizeInFlight == Cardinality(ChRunning(ch)) <= ChunkSize

\* the five fetches of the second chunk in flight, more ids to come
C21_Witness ==
  /\ Cardinality(ChRunning(ch)) = ChunkSize
  /\ ch.i = ChunkSize
  /\ Len(ch.ids) > 2 * ChunkSize

\* the first index of the chunk index k belongs to
ChunkStart(k) == (k \div ChunkSize) * ChunkSize

\* C28: a fetch has been started only if every fetch of every earlier chunk
\* has succeeded; so once a fetch of a chunk has failed, the fetches of all
\* later chunks stay unstarted.
C28_ChunkAfterChunk ==
  \A k \in DOMAIN ch.fst :
    /\ ch.fst[k] # "none"
         => \A m \in 0 .. (ChunkStart(k) - 1) : ch.fst[m] = "ok"
    /\ ch.fst[k] = "failed"
         => \A m \in DOMAIN ch.fst :
              m >= ChunkStart(k) + ChunkSize => ch.fst[m] = "none"

\* a single fetch of the second chunk still running, four done, ids of the
\* third chunk waiting: fewer than five in flight while items remain
C28_Witness ==
  /\ ch.i = ChunkSize
  /\ Cardinality(ChRunning(ch)) = 1
  /\ Cardinality({k \in ChunkOf(ch, ch.i) : ch.fst[k] = "ok"}) = ChunkSize - 1
  /\ \E m \in DOMAIN ch.fst : ch.fst[m] = "none"
  /\ ch.promise.state = "pending"

\* C29 as claimed: on a run where every fetch succeeds the chunked getTodos
\* resolves with what the sequential getTodos returns for the same ids: N
\* results, the i-th the value fetched for ids[i].
C29_SameAsSequential ==
  ch.promise.state = "resolved"
    => LET seq == getTodosSequential(ch.ids)
       IN /\ Len(ch.promise.value) = Len(seq)
          /\ \A j \in 1 .. Len(seq) : ch.promise.value[j] = seq[j]

\* the request, or the decoding, of the running pipeline fails in this step
EtRequestFailed == et.stage = "request" /\ et'.stage \in {"sleep", "failed"}
EtJsonFailed == et.stage = "json" /\ et'.stage \in {"sleep", "failed"}

C23_Step ==
  /\ EtJsonFailed
       => /\ et'.stage = "failed" /\ et'.tag = "JsonBodyError"
          /\ et'.runs = et.runs /\ et'.delays = et.delays
  /\ EtRequestFailed
       => /\ et'.tag = "FetchError"
          /\ et'.stage = "sleep" <=> defaultRetrySchedule(et.sched, et'.now).continue
  /\ et.stage = "sleep" /\ et' # et
       => et'.stage = "request" /\ et'.runs = et.runs + 1
  /\ et.stage \in {"failed", "succeeded"} => et' = et

\* C23: a JsonBodyError ends getTodo in the step it occurs, with no further
\* run of the pipeline; a FetchError is followed by a sleep and a new run of
\* the pipeline, from the request on, exactly when the schedule recurs; so
\* getTodo fails with a FetchError only when the schedule is done.
C23_OnlyFetchErrorRetried ==
  /\ [][C23_Step]_vars
  /\ [](et.stage # "idle"
          => et.runs = IF et.stage = "sleep" THEN Len(et.delays) ELSE Len(et.delays) + 1)
  /\ []((et.stage = "failed" /\ et.tag = "FetchError")
          => et.elapsed[Len(et.elapsed)] > MaxElapsedMs)

\* two FetchErrors were retried, then the third run failed to decode
C23_Witness ==
  /\ et.stage = "failed" /\ et.tag = "JsonBodyError"
  /\ et.runs = 3 /\ Len(et.delays) = 2

\* the delay of the k-th recurrence granted (k = 1, 2, ...): 10 ms * 2^n after
\* n = k - 1 earlier recurrences, held at 1 s from 1280 ms on
CappedExponentialMs(k) == IF k <= 7 THEN ExpBaseMs * Pow(ExpFactor, k - 1) ELSE SpacedMs

C24_Step ==
  Len(et'.elapsed) > Len(et.elapsed)
    => LET out == et'.elapsed[Len(et'.elapsed)]
       IN /\ out = et'.now - et'.sched.start
          /\ et'.sched.start = IF et.sched.start < 0 THEN et'.now ELSE et.sched.start
          /\ out > MaxElapsedMs => et'.stage = "failed" /\ et'.delays = et.delays

\* C24: the delay granted after n earlier recurrences is 10 ms * 2^n (n = 0 for
\* the first) and at most 1 s; the schedule measures the time since its own
\* first step, every recurrence was granted at an elapsed time of at most 30 s,
\* and a step taken later than that grants none.
C24_CappedExponentialFor30s ==
  /\ [](\A k \in 1 .. Len(et.delays) :
          /\ et.delays[k] = CappedExponentialMs(k)
          /\ et.delays[k] <= SpacedMs
          /\ et.elapsed[k] <= MaxElapsedMs)
  /\ [][C24_Step]_vars

\* the schedule ran out: the delays grew from 10 ms to the cap, and the last
\* FetchError came more than 30 s after the first
C24_Witness ==
  /\ et.stage = "failed" /\ et.tag = "FetchError"
  /\ Len(et.delays) >= 8
  /\ et.delays[1] = 10 /\ et.delays[7] = 640 /\ et.delays[8] = 1000
  /\ et.elapsed[Len(et.elapsed)] > MaxElapsedMs

\* C25: once a getTodo has failed, forEachPar has failed with that failure,
\* no fiber is left running, every request that was under way when it failed
\* has had abort() called on its AbortController, and nothing changes any
\* more; abort() is called on no other occasion.
C25_FirstFailureInterrupts ==
  /\ [](\A i \in EaIds :
          /\ ea.stage[i] = "failed"
               => /\ ea.exit = [state |-> "failed", id |-> i, tag |-> ea.exit.tag]
                  /\ \A j \in EaIds \ {i} :
                       /\ ea.stage[j] \in {"succeeded", "interrupted"}
                       /\ ea.atFailure[j] = "request" => ea.aborted[j]
          /\ ea.aborted[i]
               => ea.exit.state = "failed" /\ ea.atFailure[i] = "request")
  /\ [][ea.exit.state = "failed" => ea' = ea]_vars

\* one id failed to decode while the request of another was under way
C25_Witness ==
  \E i, j \in EaIds :
    /\ ea.stage[i] = "failed" /\ ea.exit.tag = "JsonBodyError"
    /\ ea.atFailure[j] = "request" /\ ea.recurs[j] > 0
    /\ ea.stage[j] = "interrupted" /\ ea.aborted[j]

\* C31: the items are dispatched in input order: the j-th item taken from the
\* queue is the pair (ids[j], j - 1 as its 0-based index), and what is still
\* queued is the rest of the input, reversed
C31_DispatchedInInputOrder ==
  called =>
    /\ \A j \in 1 .. Len(dispatched) : dispatched[j] = <<ids[j], j - 1>>
    /\ remaining = Reverse([k \in 1 .. (Len(ids) - Len(dispatched)) |->
                              <<ids[Len(dispatched) + k], Len(dispatched) + k - 1>>])

\* one worker, two ids given in descending order, the second dispatched only
\* after the first has finished
C31_Witness ==
  /\ Limit = 1
  /\ Len(ids) = 2
  /\ ids[1] > ids[2]
  /\ completed = <<0>>
  /\ Len(dispatched) = 2

\* C32: once the shared signal has been aborted, an item whose attempt fails
\* because of the abort is not attempted again: it leaves InFlight for Failed,
\* never for Waiting, whatever is left of its retry budget
C32_AbortedNotRetried ==
  [][\A i \in Items :
       (st[i] = "InFlight" /\ att[i] \in {"aborted", "noio"} /\ st'[i] # "InFlight")
         => st'[i] = "Failed"]_vars

\* C33: from the step that rejects the returned promise on, no item is taken
\* from the queue and none is dispatched, whatever callbacks of the other
\* items run before or after the catch callback
C33_NoDispatchOnceRejected ==
  [][promise'.state = "rejected" => (remaining' = remaining /\ dispatched' = dispatched)]_vars

\* the promise is rejected with an item still queued, and a sibling that was
\* in flight at the rejection has since run out of retries itself
C33_Witness ==
  /\ promise.state = "rejected"
  /\ remaining # <<>>
  /\ \E i \in Items : st[i] = "Failed" /\ err[i].kind = "AbortError"

\* C35: with limit <= 0 the start-up loop runs no iteration: no item is ever
\* dispatched, pending stays 0, and the returned promise stays pending for
\* ever, for the empty list too
C35_NoWorkerNeverSettles ==
  (called /\ Limit <= 0) =>
    /\ promise.state = "pending"
    /\ dispatched = <<>>
    /\ pending = 0
    /\ remaining = Pairs(ids)
    /\ \A i \in Items : st[i] = "Queued"

\* getTodos([], {limit: 0}) has returned its promise
C35_Witness ==
  /\ called
  /\ Limit = 0
  /\ ids = <<>>
  /\ promise.state = "pending"

\* C34: with a limit of at least 1, when every attempt completes in the end
\* and every backoff wait elapses, the returned promise is settled in the end,
\* whatever the number of ids and whichever attempts succeed or fail
C34_EventuallySettled == (called /\ Limit >= 1) ~> (promise.state # "pending")

\* a run settled only after an item has succeeded, a queued item has taken
\* its place, and an item has failed on every attempt up to depth limit + 1
C34_Witness ==
  /\ Limit >= 1
  /\ Len(ids) > Limit
  /\ completed # <<>>
  /\ promise.state = "rejected"
  /\ promise.reason.depth = DefaultRetryLimit + 1

\* C36: withRetry(n)(body), n >= 0, invokes body at most n + 1 times; it
\* returns the result of the first invocation that succeeds and body is not
\* invoked after it; when all n + 1 invocations fail it rethrows the error of
\* the last one
C36_AtMostNPlusOneCalls ==
  (~wr.sig /\ wr.state # "idle") =>
    /\ wr.calls <= wr.n + 1
    /\ wr.calls = wr.n - wr.left + 1
    /\ wr.state = "returned" => wr.value = wr.calls
    /\ wr.state = "thrown" => (wr.calls = wr.n + 1 /\ wr.thrown = BodyError(wr.n + 1))

\* withRetry(10) has made 11 attempts and rethrown the error of the 11th
C36_Witness ==
  /\ ~wr.sig
  /\ wr.n = RangeRetries
  /\ wr.state = "thrown"
  /\ wr.calls = RangeRetries + 1
  /\ wr.thrown = BodyError(RangeRetries + 1)

\* C37: withRetry(n, signal)(body) checks the signal before every attempt:
\* once the signal is aborted body is not invoked again, the call does not
\* return a value, and what it rejects with is the reason of the signal, also
\* when retries are left
C37_AbortStopsRetry ==
  (wr.sig /\ wr.aborted) =>
    /\ wr.calls = wr.callsAtAbort
    /\ wr.state \in {"idle", "running", "thrown"}
    /\ wr.state = "thrown" => wr.thrown = AbortReason

\* the signal was aborted during the second attempt of withRetry(10, signal);
\* the call has rejected with the reason, 9 retries unused
C37_Witness ==
  /\ wr.sig
  /\ wr.n = RangeRetries
  /\ wr.aborted
  /\ wr.callsAtAbort = 2
  /\ wr.state = "thrown"
  /\ wr.left > 0
  /\ wr.thrown = AbortReason

====
